---- MODULE Spec2Model ----
(***************************************************************************)
(* Model of src/compiler/sorting.ts (typescript-plus): reorderSourceFiles  *)
(* builds a dependency map between source files and sorts the files so     *)
(* that a file's dependencies come first, or reports a circular reference. *)
(*                                                                         *)
(* A source file is identified by its fileName, modelled as a number in    *)
(* 1..NumFiles.  The code only ever compares file names for equality, so   *)
(* the input order of the units is fixed to <<1, ..., NumFiles>> and the   *)
(* dependency map ranges over every map on these names: any other input    *)
(* order is a renaming of one of these cases.                              *)
(***************************************************************************)
EXTENDS Integers, Sequences, FiniteSets, TLC

\* ---------------------------------------------------------------- bounds
\* the number of source files of the program
NumFiles == 4
\* the number of edges the dependency map holds at most, in Spec
MaxEdges == 4
\* the number of statements the syntax trees hold at most, in SpecBuild
MaxStmts == 2
\* the depth of nested bodies the call stack holds; a walk that enters no
\* body twice nests at most NumFiles bodies
MaxStack == 6

\* ------------------------------------------------------ program constants
DeclarationWeight == 10000

Files == 1..NumFiles

VARIABLES
    sourceFiles,        \* sourceFiles: SourceFile[] (by fileName), line 30
    rootFileNames,      \* rootFileNames: string[], line 31
    isDeclarationFile,  \* SourceFile.isDeclarationFile, per file
    hasNoDefaultLib,    \* SourceFile.hasNoDefaultLib, per file
    dependencyMap,      \* dependencyMap: Map<string[]>, line 32
    pathWeightMap,      \* pathWeightMap: Map<number>, line 33
    result,             \* the SortingResult returned by sortOnDependency
    phase,              \* position inside reorderSourceFiles
    weightLog,          \* history: pathWeightMap as it was at line 440
    visits,             \* history: the dependency edges updatePathWeight iterated
    statements,         \* SourceFile.statements, per file
    bodies,             \* the body of the function or constructor a file declares
    declKind            \* the kind of that declaration, per file

vars == <<sourceFiles, rootFileNames, isDeclarationFile, hasNoDefaultLib,
          dependencyMap, pathWeightMap, result, phase, weightLog, visits,
          statements, bodies, declKind>>

\* -------------------------------------------------------------- helpers
\* a key that createMap() does not hold reads as undefined
Undefined == -1

\* createMap<number>(), lines 68 and 415
EmptyMap == [f \in Files |-> Undefined]

Null == <<>>

\* Array.prototype.indexOf: the first index, from 0, or -1
IndexOf(seq, x) ==
    LET I == {i \in 1..Len(seq) : seq[i] = x}
    IN IF I = {} THEN -1 ELSE (CHOOSE i \in I : \A j \in I : i <= j) - 1

Range(seq) == {seq[i] : i \in 1..Len(seq)}

RECURSIVE EdgeCountUpTo(_, _)
EdgeCountUpTo(map, k) == IF k = 0 THEN 0 ELSE Len(map[k]) + EdgeCountUpTo(map, k - 1)

EdgeCount(map) == EdgeCountUpTo(map, NumFiles)

\* ------------------------------------------------------- addDependency
\* lines 54-65; an absent list and an empty list are the same thing here,
\* because the code creates a list only to push onto it.
\* lines 55-57 without the early return
SameFileNever(file, dependent) == FALSE

\* line 55
SameFile(file, dependent) == file = dependent

addDependency(map, file, dependent) ==
    IF SameFile(file, dependent)
    THEN map
    ELSE IF IndexOf(map[file], dependent) = -1
         THEN [map EXCEPT ![file] = Append(@, dependent)]
         ELSE map

\* ----------------------------------------------------- updatePathWeight
\* lines 446-456: TRUE when the branch stops because the unit already has a
\* weight that is not smaller than the candidate.
AlreadyWeighted(m, path, weight) ==
    m[path] # Undefined /\ ~(m[path] < weight)

\* line 462 with != 1 for != -1
OnPathTypo(references, parentPath) == IndexOf(references, parentPath) # 1

\* line 462
OnPath(references, parentPath) == IndexOf(references, parentPath) # -1

\* line 466 without the increment
ChildWeightSame(weight) == weight

\* line 466: the candidate weight handed to the dependency
ChildWeight(weight) == weight + 1

\* line 466 with references.concat(path)
NextReferencesOfPath(references, path, parentPath) == Append(references, path)

\* line 466: references.concat(parentPath)
NextReferences(references, path, parentPath) == Append(references, parentPath)

RECURSIVE updatePathWeight(_, _, _, _, _)
RECURSIVE updateLoop(_, _, _, _, _, _)

\* The for-loop of lines 461-470 from index k of the list on; m is the weight
\* map and log the history of iterated edges so far.
updateLoop(path, weight, references, k, m, log) ==
    LET list == dependencyMap[path] IN
    IF k > Len(list)
    THEN [refs |-> Null, map |-> m, log |-> log]
    ELSE LET parentPath == list[k]
             log2 == Append(log, [from |-> path, to |-> parentPath, refs |-> references])
         IN IF OnPath(references, parentPath)
            THEN [refs |-> Append(references, parentPath), map |-> m, log |-> log2]
            ELSE LET r == updatePathWeight(parentPath, ChildWeight(weight),
                                           NextReferences(references, path, parentPath),
                                           m, log2)
                 IN IF r.refs # Null
                    THEN r
                    ELSE updateLoop(path, weight, references, k + 1, r.map, r.log)

\* lines 445-472
updatePathWeight(path, weight, references, m, log) ==
    IF AlreadyWeighted(m, path, weight)
    THEN [refs |-> Null, map |-> m, log |-> log]
    ELSE LET m2 == [m EXCEPT ![path] = weight]
         IN IF dependencyMap[path] = <<>>
            THEN [refs |-> Null, map |-> m2, log |-> log]
            ELSE updateLoop(path, weight, references, 1, m2, log)

\* ----------------------------------------------------- sortOnDependency
\* lines 416-428: the loop over sourceFiles from index i on.
RECURSIVE weightLoop(_, _, _)
weightLoop(i, m, log) ==
    IF i > Len(sourceFiles)
    THEN [refs |-> <<>>, map |-> m, log |-> log]
    ELSE LET path == sourceFiles[i] IN
         IF isDeclarationFile[path]
         THEN weightLoop(i + 1, [m EXCEPT ![path] = DeclarationWeight], log)
         ELSE LET r == updatePathWeight(path, 0, <<path>>, m, log)
              IN IF r.refs # Null
                 THEN r
                 ELSE weightLoop(i + 1, r.map, r.log)

\* the comparator with its operands swapped: ascending weights
CompareWeightAscending(m, a, b) == m[a] - m[b]

\* line 431: the comparator handed to Array.prototype.sort
CompareWeight(m, a, b) == m[b] - m[a]

\* a sort that moves a unit in front of the units of equal weight before it
StaysAfterStrict(m, y, x) == m[x] - m[y] < 0

\* Array.prototype.sort with a consistent comparator; the sort is stable
\* (ECMAScript 2019, and the insertion sort older engines use on short arrays).
\* TRUE when x is placed after an element y that preceded it.
StaysAfter(m, y, x) == CompareWeight(m, y, x) <= 0

RECURSIVE Insert(_, _, _)
Insert(m, sorted, x) ==
    IF sorted = <<>>
    THEN <<x>>
    ELSE LET n == Len(sorted)
         IN IF StaysAfter(m, sorted[n], x)
            THEN Append(sorted, x)
            ELSE Append(Insert(m, SubSeq(sorted, 1, n - 1), x), sorted[n])

RECURSIVE SortFiles(_, _)
SortFiles(m, seq) ==
    IF seq = <<>>
    THEN <<>>
    ELSE LET n == Len(seq)
         IN Insert(m, SortFiles(m, SubSeq(seq, 1, n - 1)), seq[n])

\* line 436 without the test
EmittedAll(f) == TRUE

\* line 436
Emitted(f) == ~hasNoDefaultLib[f]

\* ------------------------------------------------- the syntax trees walked
\* The trees come from the parser and the symbols from the type checker.  A
\* node is a record; decl is the file that holds the value declaration the
\* checker resolves the identifier (or the callee) to.  Each file holds at most
\* one top-level statement and declares one function or class, named by the
\* file, whose body (the constructor's body, for a class) holds at most one
\* statement: a call statement `f();` or a variable statement `var v = x;`,
\* and in a body also `return f();` or `x;`.
Identifier(g) == [kind |-> "Identifier", decl |-> g]

CallExpression(g) == [kind |-> "CallExpression", decl |-> g]

Statements ==
    {[kind |-> "ExpressionStatement", expression |-> CallExpression(g)] : g \in Files}
    \cup {[kind |-> "VariableStatement", expression |-> Identifier(g)] : g \in Files}

\* `return f();` and the bare reference `x;`, which only bodies hold here
BodyStatements ==
    {[kind |-> "ReturnStatement", expression |-> CallExpression(g)] : g \in Files}
    \cup {[kind |-> "ExpressionStatement", expression |-> Identifier(g)] : g \in Files}

StatementsAt(slot) ==
    IF slot[2] = "body" THEN Statements \cup BodyStatements ELSE Statements

Block(stmts) == [kind |-> "Block", statements |-> stmts]

Slots == Files \X {"statements", "body"}

\* A body that no call names is never walked, so only called bodies hold code.
Called(p, g) ==
    \E s \in DOMAIN p : p[s].kind # "ReturnStatement" /\ p[s].expression = CallExpression(g)

Programs ==
    {p \in UNION {[S -> Statements \cup BodyStatements] :
                     S \in {T \in SUBSET Slots : Cardinality(T) <= MaxStmts}} :
        /\ \A s \in DOMAIN p : p[s] \in StatementsAt(s)
        /\ \A g \in Files : <<g, "body">> \in DOMAIN p => Called(p, g)}

SlotOf(p, f, part) == IF <<f, part>> \in DOMAIN p THEN <<p[<<f, part>>]>> ELSE <<>>

\* forEachChild: the child nodes of a node, in order
Children(node) ==
    CASE node.kind = "Block" -> node.statements
      [] node.kind \in {"ExpressionStatement", "VariableStatement", "ReturnStatement"} ->
             <<node.expression>>
      [] node.kind = "CallExpression" -> <<Identifier(node.decl)>>
      [] OTHER -> <<>>

\* ------------------------------------------------------------ the builder
\* The walk threads st = [map, overflow]: the dependency map so far, and
\* whether the recursion ran out of call stack (a RangeError, which unwinds
\* the whole of reorderSourceFiles).

\* lines 154-164; file is getSourceFileOfNode(node).fileName
checkDependencyAtLocation(node, file, st) ==
    IF isDeclarationFile[node.decl]
    THEN st
    ELSE [st EXCEPT !.map = addDependency(@, file, node.decl)]

\* the body's nodes taken to lie in the caller's file
BodyOwnerCaller(callerFile, declFile) == callerFile

\* getSourceFileOfNode (lines 474-479) of a node inside the body of the
\* declaration that a call in callerFile resolved to in declFile
BodyOwner(callerFile, declFile) == declFile

\* the nested calls of checkCodeBlock no longer fit the call stack
Exhausted(depth) == depth >= MaxStack

RECURSIVE checkExpression(_, _, _, _)
RECURSIVE checkCallExpression(_, _, _, _)
RECURSIVE checkClassInstantiation(_, _, _, _)
RECURSIVE checkCodeBlock(_, _, _, _)
RECURSIVE forEachVisit(_, _, _, _, _)
RECURSIVE visit(_, _, _, _)

\* lines 253-315
checkExpression(expression, file, depth, st) ==
    CASE expression.kind = "CallExpression" -> checkCallExpression(expression, file, depth, st)
      [] expression.kind = "Identifier" -> checkDependencyAtLocation(expression, file, st)
      [] OTHER -> st

\* lines 333-368; the calls of the model pass no arguments
checkCallExpression(callExpression, file, depth, st) ==
    LET g == callExpression.decl IN
    IF isDeclarationFile[g]
    THEN st
    ELSE LET st1 == [st EXCEPT !.map = addDependency(@, file, g)]
         IN IF declKind[g] = "FunctionDeclaration"
            THEN checkCodeBlock(Block(bodies[g]), BodyOwner(file, g), depth, st1)
            ELSE checkClassInstantiation(g, BodyOwner(file, g), depth, st1)

\* lines 370-388; the class has one member, its constructor
checkClassInstantiation(g, file, depth, st) ==
    checkCodeBlock(Block(bodies[g]), file, depth, st)

\* lines 390-408
checkCodeBlock(block, file, depth, st) ==
    IF Exhausted(depth)
    THEN [st EXCEPT !.overflow = TRUE]
    ELSE forEachVisit(Children(block), 1, file, depth + 1, st)

forEachVisit(children, k, file, depth, st) ==
    IF st.overflow \/ k > Len(children)
    THEN st
    ELSE forEachVisit(children, k + 1, file, depth, visit(children[k], file, depth, st))

\* lines 392-407
visit(node, file, depth, st) ==
    IF node.kind \in {"VariableStatement", "ExpressionStatement"}
    THEN checkExpression(node.expression, file, depth, st)
    ELSE forEachVisit(Children(node), 1, file, depth, st)

\* lines 91-136
visitStatement(statement, file, st) ==
    CASE statement.kind \in {"ExpressionStatement", "VariableStatement"} ->
             checkExpression(statement.expression, file, 0, st)
      [] statement.kind = "ReturnStatement" -> checkCodeBlock(statement, file, 0, st)
      [] OTHER -> st

\* lines 78-89, from statement k on
RECURSIVE visitFile(_, _, _)
visitFile(f, k, st) ==
    IF st.overflow \/ k > Len(statements[f])
    THEN st
    ELSE visitFile(f, k + 1, visitStatement(statements[f][k], f, st))

\* lines 67-76, from index i of sourceFiles on
RECURSIVE buildLoop(_, _)
buildLoop(i, st) ==
    IF st.overflow \/ i > Len(sourceFiles)
    THEN st
    ELSE IF isDeclarationFile[sourceFiles[i]]
         THEN buildLoop(i + 1, st)
         ELSE buildLoop(i + 1, visitFile(sourceFiles[i], 1, st))

\* ------------------------------------------------------------ the actions
\* Spec: the walk over the syntax trees is left out, and the dependency map
\* is built by any sequence of addDependency calls.  Any set of files can be
\* declaration files; the first file given, and no other, can carry
\* hasNoDefaultLib (the default library leads the files of a program).
Init ==
    /\ sourceFiles = [i \in 1..NumFiles |-> i]
    /\ isDeclarationFile \in [Files -> BOOLEAN]
    /\ hasNoDefaultLib \in {[f \in Files |-> f = lib] : lib \in {0, sourceFiles[1]}}
    /\ rootFileNames = SelectSeq(sourceFiles, LAMBDA f : ~hasNoDefaultLib[f])
    /\ dependencyMap = [f \in Files |-> <<>>]
    /\ pathWeightMap = Null
    /\ result = [sortedFileNames |-> <<>>, circularReferences |-> <<>>]
    /\ phase = "building"
    /\ weightLog = EmptyMap
    /\ visits = <<>>
    /\ statements = [f \in Files |-> <<>>]
    /\ bodies = [f \in Files |-> <<>>]
    /\ declKind = [f \in Files |-> "FunctionDeclaration"]

\* One call of addDependency (lines 54-65) made while the map is built.  Both
\* arguments are files that are not declaration files: the callers return
\* before the call otherwise (lines 71, 160, 354).
AddDependency(file, dependent) ==
    /\ phase = "building"
    /\ ~isDeclarationFile[file]
    /\ ~isDeclarationFile[dependent]
    /\ EdgeCount(dependencyMap) < MaxEdges
    /\ dependencyMap' = addDependency(dependencyMap, file, dependent)
    /\ UNCHANGED <<sourceFiles, rootFileNames, isDeclarationFile, hasNoDefaultLib,
                   pathWeightMap, result, phase, weightLog, visits,
                   statements, bodies, declKind>>

\* sortOnDependency, lines 411-443
SortOnDependency ==
    /\ phase = "building"
    /\ LET r == weightLoop(1, EmptyMap, <<>>)
           sorted == SortFiles(r.map, sourceFiles)
       IN /\ IF r.refs = <<>>
             THEN /\ sourceFiles' = sorted
                  /\ rootFileNames' = sorted
                  /\ result' = [sortedFileNames |-> SelectSeq(sorted, Emitted),
                                circularReferences |-> <<>>]
             ELSE /\ result' = [sortedFileNames |-> <<>>, circularReferences |-> r.refs]
                  /\ UNCHANGED <<sourceFiles, rootFileNames>>
          /\ weightLog' = r.map
          /\ visits' = r.log
    /\ pathWeightMap' = Null
    /\ phase' = "sorted"
    /\ UNCHANGED <<isDeclarationFile, hasNoDefaultLib, dependencyMap,
                   statements, bodies, declKind>>

Next ==
    \/ \E file \in Files, dependent \in Files : AddDependency(file, dependent)
    \/ SortOnDependency

Spec == Init /\ [][Next]_vars

\* -------------------------------------------- the builder on syntax trees
\* SpecBuild: the dependency map is built by buildDependencyMap from syntax
\* trees of at most MaxStmts statements.  The last file given can be a
\* declaration file, and the declarations are all functions or all classes.
InitBuild ==
    /\ sourceFiles = [i \in 1..NumFiles |-> i]
    /\ hasNoDefaultLib = [f \in Files |-> FALSE]
    /\ rootFileNames = sourceFiles
    /\ \E p \in Programs :
          /\ statements = [f \in Files |-> SlotOf(p, f, "statements")]
          /\ bodies = [f \in Files |-> SlotOf(p, f, "body")]
    /\ isDeclarationFile \in {[f \in Files |-> f = d] : d \in {0, sourceFiles[NumFiles]}}
    /\ \A f \in Files : isDeclarationFile[f] => statements[f] = <<>> /\ bodies[f] = <<>>
    /\ declKind \in {[f \in Files |-> k] : k \in {"FunctionDeclaration", "ClassDeclaration"}}
    /\ (\A f \in Files : bodies[f] = <<>>) => declKind[1] = "FunctionDeclaration"
    /\ dependencyMap = Null
    /\ pathWeightMap = Null
    /\ result = [sortedFileNames |-> <<>>, circularReferences |-> <<>>]
    /\ phase = "start"
    /\ weightLog = EmptyMap
    /\ visits = <<>>

\* buildDependencyMap, lines 67-76, with everything it calls
BuildDependencyMap ==
    /\ phase = "start"
    /\ LET st == buildLoop(1, [map |-> [f \in Files |-> <<>>], overflow |-> FALSE])
       IN /\ dependencyMap' = st.map
          /\ phase' = IF st.overflow THEN "overflow" ELSE "building"
    /\ UNCHANGED <<sourceFiles, rootFileNames, isDeclarationFile, hasNoDefaultLib,
                   pathWeightMap, result, weightLog, visits, statements, bodies, declKind>>

NextBuild ==
    \/ BuildDependencyMap
    \/ SortOnDependency

SpecBuild == InitBuild /\ [][NextBuild]_vars

\* ------------------------------------------------- notions the claims use
Edge(u, x) == IndexOf(dependencyMap[u], x) # -1

Edges == {e \in Files \X Files : Edge(e[1], e[2])}

\* the units reached from the units of S in at most n further steps
RECURSIVE ReachFrom(_, _)
ReachFrom(S, n) ==
    LET T == S \cup UNION {Range(dependencyMap[u]) : u \in S}
    IN IF n = 0 \/ T = S THEN S ELSE ReachFrom(T, n - 1)

\* the units u depends on, directly or transitively
Dependencies(u) == ReachFrom(Range(dependencyMap[u]), NumFiles)

Cyclic == \E f \in Files : f \in Dependencies(f)

Sorted == phase = "sorted"

Succeeded == Sorted /\ result.circularReferences = <<>>

\* position of a unit in the emission list, -1 when it is not in it
OutPos(f) == IndexOf(result.sortedFileNames, f)

InOutput(f) == OutPos(f) # -1

\* position of a unit in the input collection
InPos(f) == f - 1

Last(seq) == seq[Len(seq)]

\* C1: on a successful sort every unit of the output stands before every unit
\* of the output that depends on it, directly or transitively.
DependencyFirst ==
    Succeeded =>
        \A u \in Files :
            InOutput(u) => \A x \in Dependencies(u) : InOutput(x) => OutPos(x) < OutPos(u)

\* a chain u -> x -> y given in the order u, x, y and emitted as y, x, u
DependencyFirstWitness ==
    /\ Succeeded
    /\ \E u \in Files, x \in Files, y \in Files :
          /\ Edge(u, x) /\ Edge(x, y)
          /\ InPos(u) < InPos(x) /\ InPos(x) < InPos(y)
          /\ InOutput(u) /\ InOutput(x) /\ InOutput(y)
          /\ OutPos(y) < OutPos(x) /\ OutPos(x) < OutPos(u)

\* C2: the sort reports a circular reference exactly when the dependency map
\* has a cycle, and then the ordered name list is empty.
CycleIffReported ==
    Sorted =>
        LET cyclic == Cyclic
        IN /\ cyclic <=> result.circularReferences # <<>>
           /\ cyclic => result.sortedFileNames = <<>>

\* a cycle is reported after an earlier unit, not on the reported path, got
\* its weight, and the path starts outside the cycle
CycleIffReportedWitness ==
    /\ Sorted
    /\ Cyclic
    /\ result.circularReferences # <<>>
    /\ result.circularReferences[1] # Last(result.circularReferences)
    /\ \E f \in Files :
          /\ ~isDeclarationFile[f]
          /\ weightLog[f] # Undefined
          /\ IndexOf(result.circularReferences, f) = -1

\* C3: every reported cycle path has identical first and last entries.
CyclePathClosed ==
    (Sorted /\ result.circularReferences # <<>>) =>
        result.circularReferences[1] = Last(result.circularReferences)

\* C4 as stated: the emission list of a successful sort holds no unit with
\* hasNoDefaultLib and no declaration-only unit.
NoRootNoDeclarationEmitted ==
    Succeeded =>
        \A f \in Files : InOutput(f) => ~hasNoDefaultLib[f] /\ ~isDeclarationFile[f]

\* C4 as amended: the emission list of a successful sort holds exactly the
\* units without hasNoDefaultLib, declaration-only units among them.
NoImplicitRootEmitted ==
    Succeeded =>
        /\ \A f \in Files : InOutput(f) <=> ~hasNoDefaultLib[f]
        /\ Range(rootFileNames) = Files

NoImplicitRootEmittedWitness ==
    /\ Succeeded
    /\ Edges # {}
    /\ \E f \in Files : hasNoDefaultLib[f] /\ ~isDeclarationFile[f] /\ ~InOutput(f)
    /\ \E g \in Files : isDeclarationFile[g] /\ InOutput(g)

\* C5 as stated: two units with no edge between them in either direction keep
\* their input order in the output (stated here for units with code only: a
\* declaration-only unit always leads).
UnrelatedKeepOrder ==
    Succeeded =>
        \A a \in Files, b \in Files :
            (/\ InOutput(a) /\ InOutput(b)
             /\ ~isDeclarationFile[a] /\ ~isDeclarationFile[b]
             /\ ~Edge(a, b) /\ ~Edge(b, a)
             /\ InPos(a) < InPos(b)) => OutPos(a) < OutPos(b)

\* C5 as amended: two units that end with the same weight keep their input
\* order in the output.
EqualWeightKeepOrder ==
    Succeeded =>
        \A a \in Files, b \in Files :
            (/\ InOutput(a) /\ InOutput(b)
             /\ weightLog[a] = weightLog[b]
             /\ InPos(a) < InPos(b)) => OutPos(a) < OutPos(b)

\* two units of equal weight that both depend on a unit given after them,
\* which the sort moves in front of both
EqualWeightKeepOrderWitness ==
    /\ Succeeded
    /\ \E a \in Files, b \in Files, c \in Files :
          /\ InPos(a) < InPos(b) /\ InPos(b) < InPos(c)
          /\ Edge(a, c) /\ Edge(b, c)
          /\ weightLog[a] = weightLog[b]
          /\ InOutput(a) /\ InOutput(b) /\ InOutput(c)
          /\ OutPos(c) < OutPos(a) /\ OutPos(a) < OutPos(b)

\* C8 as stated: after a successful sort, weight(U) >= weight(X) + 1 for every
\* edge in which U depends on X.
DependentOutweighs ==
    Succeeded => \A e \in Edges : weightLog[e[1]] >= weightLog[e[2]] + 1

\* C8 as amended: after a successful sort, weight(X) >= weight(U) + 1 for
\* every edge in which U depends on X.
DependencyOutweighs ==
    Succeeded => \A e \in Edges : weightLog[e[2]] >= weightLog[e[1]] + 1

\* a dependency that lies deeper than one step below its dependent
DependencyOutweighsWitness ==
    /\ Succeeded
    /\ \E e \in Edges : weightLog[e[2]] > weightLog[e[1]] + 1

\* C9 as stated: within the propagation from one root an edge is iterated at
\* most once.
EdgeOncePerRoot ==
    Sorted =>
        \A i \in 1..Len(visits), j \in 1..Len(visits) :
            (/\ i < j
             /\ visits[i].refs[1] = visits[j].refs[1]
             /\ visits[i].from = visits[j].from) => visits[i].to # visits[j].to

\* C9 as amended: on one branch of the propagation (the references list from
\* the root down to the unit whose dependencies are iterated) no unit, and so
\* no edge, occurs twice; only the last iteration of a sort that reports a
\* cycle meets a dependency that is already on the branch.
EdgeOncePerBranch ==
    Sorted =>
        \A i \in 1..Len(visits) :
            LET v == visits[i] IN
            /\ Last(v.refs) = v.from
            /\ \A a \in 1..Len(v.refs), b \in 1..Len(v.refs) : a # b => v.refs[a] # v.refs[b]
            /\ \A a \in 1..(Len(v.refs) - 1) : Edge(v.refs[a], v.refs[a + 1])
            /\ IndexOf(v.refs, v.to) # -1 =>
                   i = Len(visits) /\ result.circularReferences = Append(v.refs, v.to)

\* one edge iterated twice from the same root, on two different branches
EdgeOncePerBranchWitness ==
    /\ Succeeded
    /\ \E i \in 1..Len(visits), j \in 1..Len(visits) :
          /\ i < j
          /\ visits[i].refs[1] = visits[j].refs[1]
          /\ visits[i].from = visits[j].from
          /\ visits[i].to = visits[j].to
          /\ visits[i].refs # visits[j].refs

\* the dependency map exists: buildDependencyMap was entered
Built == phase \in {"building", "overflow", "sorted"}

\* unit a's top level calls the function of unit b, whose body refers to a
\* value of unit c in an expression statement or a variable initializer
Inlines(a, b, c) ==
    /\ ~isDeclarationFile[a] /\ ~isDeclarationFile[b]
    /\ statements[a] = <<[kind |-> "ExpressionStatement", expression |-> CallExpression(b)]>>
    /\ declKind[b] = "FunctionDeclaration"
    /\ bodies[b] \in {<<[kind |-> k, expression |-> Identifier(c)]>> :
                        k \in {"ExpressionStatement", "VariableStatement"}}

\* C6: when A's top level calls a function of B whose body refers to a value
\* of C, the builder records that A depends on B and B on C, and a successful
\* sort emits C before B and B before A.
CallInlining ==
    \A a \in Files, b \in Files, c \in Files :
        (a # b /\ b # c /\ a # c /\ Inlines(a, b, c)) =>
            /\ phase \in {"building", "sorted"} =>
                   /\ Edge(a, b)
                   /\ ~isDeclarationFile[c] => Edge(b, c)
            /\ Succeeded => OutPos(c) < OutPos(b) /\ OutPos(b) < OutPos(a)

\* the units are given as A, B, C, B's top level is empty, and the sort
\* emits C, B, A
CallInliningWitness ==
    /\ Succeeded
    /\ \E a \in Files, b \in Files, c \in Files :
          /\ InPos(a) < InPos(b) /\ InPos(b) < InPos(c)
          /\ Inlines(a, b, c)
          /\ statements[b] = <<>>
          /\ ~isDeclarationFile[c]
          /\ OutPos(c) < OutPos(b) /\ OutPos(b) < OutPos(a)

\* C7: the dependency map never holds an edge from a unit to itself, so the
\* sort never iterates such an edge (a unit does not raise its own weight)
\* and never reports a unit as a cycle with itself.
NoSelfEdge ==
    /\ Built => \A f \in Files : ~Edge(f, f)
    /\ Sorted =>
          /\ \A i \in 1..Len(visits) : visits[i].from # visits[i].to
          /\ \A i \in 1..(Len(result.circularReferences) - 1) :
                 result.circularReferences[i] # result.circularReferences[i + 1]

\* a unit that refers to its own value and calls its own function, sorted
\* with weight 0
NoSelfEdgeWitness ==
    /\ Succeeded
    /\ \E f \in Files :
          /\ statements[f] = <<[kind |-> "ExpressionStatement", expression |-> CallExpression(f)]>>
          /\ bodies[f] \in {<<[kind |-> k, expression |-> Identifier(f)]>> :
                              k \in {"ExpressionStatement", "VariableStatement"}}
          /\ weightLog[f] = 0

\* C10: the builder terminates: the walk never runs out of call stack.
BuilderTerminates == phase # "overflow"

====
